---- MODULE Spec2Model ----
(***************************************************************************)
(* Model of chart.cpp: the tokenizer (trim, splitByWord, split), the       *)
(* catalog index (parseClassNames) and the prerequisite pass               *)
(* (parsePrerequisites).                                                   *)
(*                                                                         *)
(* A std::string is a sequence of one-character strings; positions are     *)
(* 1-based, and the position 0 stands for string::npos.                    *)
(***************************************************************************)
EXTENDS Integers, Sequences, FiniteSets, TLC

VARIABLES
    pc,            \* position of main: "start", "catalog", "rows", "done"
    courseMap,     \* map<string, Course>: function from classNumber to Course
    classNumber,   \* parsePrerequisites: trimmed classNumber of the row read last
    nrows,         \* number of prerequisite rows read so far
    course,        \* row harness: the Course the rows are applied to
    previous,      \* row harness: course as it was before the last row
    prereqString,  \* row harness: trimmed prereqString of the last row
    applied,       \* row harness: number of rows applied
    op,            \* tokenizer harness: the function called last
    text,          \* tokenizer harness: its string argument
    delimiter,     \* tokenizer harness: split's delimiter argument
    tokens         \* tokenizer harness: the vector<string> it returned

vars ==
    <<pc, courseMap, classNumber, nrows, course, previous, prereqString, applied,
      op, text, delimiter, tokens>>

mainVars == <<pc, courseMap, classNumber, nrows>>
rowVars == <<course, previous, prereqString, applied>>
tokVars == <<op, text, delimiter, tokens>>

-----------------------------------------------------------------------------
(* Bounds of the model.                                                    *)

MaxLen == 4          \* longest string handed to the tokenizer harness
MaxGroups == 2       \* most comma-separated groups of a generated raw field
MaxRows == 2         \* most prerequisite rows of one prerequisites file
MaxCatalog == 2      \* most data rows of one catalog file

-----------------------------------------------------------------------------
(* Strings.                                                                *)

npos == 0

EmptyStr == <<>>

\* All strings over the alphabet A of length at most n.
StringsUpTo(A, n) == UNION {[1..k -> A] : k \in 0..n}

\* The characters " \t\n\r" of trim.
Whitespace == {" ", "\t", "\n", "\r"}

\* str.substr(first) in 1-based positions.
Substr(str, first) == SubSeq(str, first, Len(str))

\* str.find_first_not_of(" \t\n\r"), npos when there is none.
FindFirstNotOf(str) ==
    LET S == {i \in 1..Len(str) : str[i] \notin Whitespace}
    IN IF S = {} THEN npos ELSE CHOOSE i \in S : \A j \in S : i <= j

\* str.find_last_not_of(" \t\n\r"), npos when there is none.
FindLastNotOf(str) ==
    LET S == {i \in 1..Len(str) : str[i] \notin Whitespace}
    IN IF S = {} THEN npos ELSE CHOOSE i \in S : \A j \in S : i >= j

trim(str) ==
    LET first == FindFirstNotOf(str)
        last == FindLastNotOf(str)
    IN IF first = npos THEN EmptyStr ELSE SubSeq(str, first, last)

\* str.find(word, start): the least position >= start where word occurs.
Find(str, word, start) ==
    LET S == {i \in start..(Len(str) - Len(word) + 1) :
                 SubSeq(str, i, i + Len(word) - 1) = word}
    IN IF S = {} THEN npos ELSE CHOOSE i \in S : \A j \in S : i <= j

\* splitByWord without its tail: the last part of the string is never pushed.
LastPartOmitted(lastToken) == <<>>

\* The tail of splitByWord: the last part of the string is pushed, trimmed,
\* when it is not empty (the test is made before the trim).
LastPart(lastToken) ==
    IF lastToken # EmptyStr THEN <<trim(lastToken)>> ELSE <<>>

\* The loop of splitByWord from position start on, followed by its tail.
RECURSIVE SplitByWordFrom(_, _, _)
SplitByWordFrom(str, word, start) ==
    LET end == Find(str, word, start)
    IN IF end # npos
       THEN <<trim(SubSeq(str, start, end - 1))>>
                \o SplitByWordFrom(str, word, end + Len(word))
       ELSE LastPart(Substr(str, start))

splitByWord(str, word) == SplitByWordFrom(str, word, 1)

\* One std::getline(stream, token, delim) on the unread rest of a stream that
\* is not at its end: the token, and the rest left unread (the delimiter is
\* consumed).
GetlineToken(rest, delim) ==
    LET S == {i \in 1..Len(rest) : rest[i] = delim}
        d == IF S = {} THEN npos ELSE CHOOSE i \in S : \A j \in S : i <= j
    IN IF d = npos THEN [token |-> rest, rest |-> EmptyStr]
       ELSE [token |-> SubSeq(rest, 1, d - 1), rest |-> Substr(rest, d + 1)]

\* while (getline(stream, token, delim)): the tokens read until getline
\* fails. getline fails when no character is left to extract.
RECURSIVE GetlineAll(_, _)
GetlineAll(rest, delim) ==
    IF rest = EmptyStr THEN <<>>
    ELSE LET g == GetlineToken(rest, delim)
         IN <<g.token>> \o GetlineAll(g.rest, delim)

split(str, delim) ==
    LET raw == GetlineAll(str, delim)
    IN [i \in 1..Len(raw) |-> trim(raw[i])]

\* The k-th getline(iss, field, delim) on a fresh stream over line: a field
\* whose getline fails keeps the empty string it was constructed with.
GetField(line, delim, k) ==
    LET raw == GetlineAll(line, delim)
    IN IF k <= Len(raw) THEN raw[k] ELSE EmptyStr

-----------------------------------------------------------------------------
(* Course and the catalog index.                                           *)

\* Course(number, name): prerequisites starts as an empty vector.
Course(number, name) ==
    [classNumber |-> number, className |-> name, prerequisites |-> <<>>]

\* courseMap[classNumber] = course: inserts, or replaces the mapped value.
MapAssign(map, key, value) ==
    [k \in DOMAIN map \cup {key} |-> IF k = key THEN value ELSE map[k]]

EmptyMap == [k \in {} |-> Course(EmptyStr, EmptyStr)]

\* The body of parseClassNames' loop for one line of the catalog file.
CatalogRow(map, line) ==
    LET number == trim(GetField(line, ",", 1))
        name == trim(GetField(line, ",", 2))
    IN MapAssign(map, number, Course(number, name))

\* The loop of parseClassNames over the lines left in the file.
RECURSIVE CatalogRows(_, _)
CatalogRows(map, lines) ==
    IF lines = <<>> THEN map
    ELSE CatalogRows(CatalogRow(map, Head(lines)), Tail(lines))

\* A file that cannot be opened, and a file holding the given lines.
NoFile == [open |-> FALSE, lines |-> <<>>]
File(lines) == [open |-> TRUE, lines |-> lines]

\* getline(file, line) once, to skip the header: the lines left after it.
SkipHeader(lines) == IF lines = <<>> THEN <<>> ELSE Tail(lines)

parseClassNames(file) ==
    IF ~file.open THEN EmptyMap
    ELSE CatalogRows(EmptyMap, SkipHeader(file.lines))

-----------------------------------------------------------------------------
(* The prerequisite pass, one row of the file.                             *)

OR == <<"O", "R">>

\* An insertion at the front of the vector instead of its back.
PushFront(vec, x) == <<x>> \o vec

\* vector::push_back.
PushBack(vec, x) == Append(vec, x)

\* uniquePrereqGroups.find(s) == uniquePrereqGroups.end()
NotFound(uniquePrereqGroups, s) == s \notin uniquePrereqGroups

\* The loop over the options of one group: st = [set, uniqueOptions].
RECURSIVE UniqueOptions(_, _)
UniqueOptions(options, st) ==
    IF options = <<>> THEN st
    ELSE LET option == Head(options)
         IN IF NotFound(st.set, option)
            THEN UniqueOptions(Tail(options),
                     [set |-> st.set \cup {option},
                      uniqueOptions |-> PushBack(st.uniqueOptions, option)])
            ELSE UniqueOptions(Tail(options), st)

\* groupStr += opt + " " for every opt.
RECURSIVE Concatenated(_)
Concatenated(uniqueOptions) ==
    IF uniqueOptions = <<>> THEN EmptyStr
    ELSE Head(uniqueOptions) \o <<" ">> \o Concatenated(Tail(uniqueOptions))

\* The group's string without the trim: it keeps its trailing space.
GroupStrUntrimmed(uniqueOptions) == Concatenated(uniqueOptions)

\* The string a group is converted to, to check for duplicates.
GroupStr(uniqueOptions) == trim(Concatenated(uniqueOptions))

\* The body of the loop over andGroups: st = [set, prerequisites].
AndGroup(group, st) ==
    LET options == splitByWord(trim(group), OR)
        u == UniqueOptions(options, [set |-> st.set, uniqueOptions |-> <<>>])
        groupStr == GroupStr(u.uniqueOptions)
    IN IF u.uniqueOptions # <<>>
       THEN IF NotFound(u.set, groupStr)
            THEN [set |-> u.set \cup {groupStr},
                  prerequisites |-> PushBack(st.prerequisites, u.uniqueOptions)]
            ELSE [set |-> u.set, prerequisites |-> st.prerequisites]
       ELSE [set |-> u.set, prerequisites |-> st.prerequisites]

RECURSIVE AndGroups(_, _)
AndGroups(andGroups, st) ==
    IF andGroups = <<>> THEN st
    ELSE AndGroups(Tail(andGroups), AndGroup(Head(andGroups), st))

\* A row that assigns the groups it parsed instead of appending them.
AddPrerequisitesReplacing(c, prereq) ==
    LET st == AndGroups(split(prereq, ","), [set |-> {}, prerequisites |-> <<>>])
    IN [c EXCEPT !.prerequisites = st.prerequisites]

\* What one row does to the course it names: uniquePrereqGroups starts
\* empty for every row.
AddPrerequisites(c, prereq) ==
    LET st == AndGroups(split(prereq, ","),
                        [set |-> {}, prerequisites |-> c.prerequisites])
    IN [c EXCEPT !.prerequisites = st.prerequisites]

\* The trimmed fields of a line of the prerequisites file.
RowClassNumber(line) == trim(GetField(line, "\t", 1))
RowPrereqString(line) == trim(GetField(line, "\t", 3))

\* A lookup by courseMap[classNumber], which inserts a default-constructed
\* Course for a key that is not in the map.
PrerequisiteRowInserting(map, number, prereq) ==
    LET found == IF number \in DOMAIN map THEN map[number]
                 ELSE Course(EmptyStr, EmptyStr)
    IN MapAssign(map, number, AddPrerequisites(found, prereq))

\* courseMap.find(classNumber), and the update through the iterator.
PrerequisiteRow(map, number, prereq) ==
    IF number \in DOMAIN map
    THEN [map EXCEPT ![number] = AddPrerequisites(map[number], prereq)]
    ELSE map

-----------------------------------------------------------------------------
(* Inputs.                                                                 *)

Header == <<"h">>

\* Lines of a catalog file: "A,x", " B ,y" and "A,z".
CatalogLines ==
    { <<"A", ",", "x">>, <<" ", "B", " ", ",", "y">>, <<"A", ",", "z">> }

CatalogFiles ==
    {NoFile, File(<<>>)}
        \cup {File(<<Header>> \o rows) :
                 rows \in UNION {[1..k -> CatalogLines] : k \in 0..MaxCatalog}}

Math100 == <<"M", "A", "T", "H", " ", "1", "0", "0">>
Math101 == <<"M", "A", "T", "H", " ", "1", "0", "1">>

\* "MATH 100 OR MATH 101, MATH 101"
Example == Math100 \o <<" ">> \o OR \o <<" ">> \o Math101 \o <<",", " ">> \o Math101

\* Texts of one comma-separated group: "A", "A OR B", "C OR D", "B OR C".
GroupTexts ==
    { <<"A">>,
      <<"A", " ", "O", "R", " ", "B">>,
      <<"C", " ", "O", "R", " ", "D">>,
      <<"B", " ", "O", "R", " ", "C">> }

RECURSIVE JoinComma(_)
JoinComma(groups) ==
    IF Len(groups) = 1 THEN Head(groups)
    ELSE Head(groups) \o <<",", " ">> \o JoinComma(Tail(groups))

\* Raw prerequisite fields: up to MaxGroups groups joined by ", ", the empty
\* field, the example, " OR A OR B ", "A B OR C", "AORB", "A OR",
\* "C OR D," and "A OR B OR A,,D".
RawFields ==
    {JoinComma(gs) : gs \in UNION {[1..k -> GroupTexts] : k \in 1..MaxGroups}}
        \cup { EmptyStr, Example,
               <<" ">> \o OR \o <<" ", "A", " ">> \o OR \o <<" ", "B", " ">>,
               <<"A", " ", "B", " ">> \o OR \o <<" ", "C">>,
               <<"A">> \o OR \o <<"B">>,
               <<"A", " ">> \o OR,
               <<"C", " ">> \o OR \o <<" ", "D", ",">>,
               <<"A", " ">> \o OR \o <<" ", "B", " ">> \o OR \o <<" ", "A", ",", ",", "D">> }

\* CourseId fields of a prerequisite row: "A", " B" and "C".
RowIds == { <<"A">>, <<" ", "B">>, <<"C">> }

\* Lines of a prerequisites file: the three tab-separated fields, and rows
\* with fewer fields.
PrereqLines ==
    {id \o <<"\t", "n", "\t">> \o raw : id \in RowIds, raw \in RawFields}
        \cup {id \o <<"\t", "n">> : id \in RowIds}
        \cup RowIds

-----------------------------------------------------------------------------
(* main: parseClassNames, then parsePrerequisites row by row.              *)

Init ==
    /\ pc = "start"
    /\ courseMap = EmptyMap
    /\ classNumber = EmptyStr
    /\ nrows = 0
    /\ course = Course(<<"A">>, <<"x">>)
    /\ previous = Course(<<"A">>, <<"x">>)
    /\ prereqString = EmptyStr
    /\ applied = 0
    /\ op = "none"
    /\ text = EmptyStr
    /\ delimiter = ","
    /\ tokens = <<>>

\* map<string, Course> courseMap = parseClassNames(classNamesFile)
ParseClassNames(file) ==
    /\ pc = "start"
    /\ courseMap' = parseClassNames(file)
    /\ pc' = "catalog"
    /\ UNCHANGED <<classNumber, nrows>>
    /\ UNCHANGED rowVars
    /\ UNCHANGED tokVars

\* parsePrerequisites: the file cannot be opened, and the function returns.
OpenFails ==
    /\ pc = "catalog"
    /\ pc' = "done"
    /\ UNCHANGED <<courseMap, classNumber, nrows>>
    /\ UNCHANGED rowVars
    /\ UNCHANGED tokVars

\* parsePrerequisites: the file is open and its header is skipped.
OpenPrerequisites ==
    /\ pc = "catalog"
    /\ pc' = "rows"
    /\ UNCHANGED <<courseMap, classNumber, nrows>>
    /\ UNCHANGED rowVars
    /\ UNCHANGED tokVars

\* parsePrerequisites: one iteration of the loop over the lines of the file.
ReadRow(line) ==
    /\ pc = "rows"
    /\ nrows < MaxRows
    /\ classNumber' = RowClassNumber(line)
    /\ courseMap' = PrerequisiteRow(courseMap, RowClassNumber(line), RowPrereqString(line))
    /\ nrows' = nrows + 1
    /\ UNCHANGED pc
    /\ UNCHANGED rowVars
    /\ UNCHANGED tokVars

\* parsePrerequisites: getline fails at the end of the file; file.close().
EndOfFile ==
    /\ pc = "rows"
    /\ pc' = "done"
    /\ UNCHANGED <<courseMap, classNumber, nrows>>
    /\ UNCHANGED rowVars
    /\ UNCHANGED tokVars

Next ==
    \/ \E file \in CatalogFiles : ParseClassNames(file)
    \/ OpenFails
    \/ OpenPrerequisites
    \/ \E line \in PrereqLines : ReadRow(line)
    \/ EndOfFile

Spec == Init /\ [][Next]_vars

-----------------------------------------------------------------------------
(* One course on its own: the rows of a prerequisites file that name it,   *)
(* applied one after the other.                                            *)

\* The body of the loop of parsePrerequisites for a row whose course is
\* found: the field is trimmed and its groups are added to the course.
ApplyRow(raw) ==
    /\ applied < MaxRows
    /\ previous' = course
    /\ prereqString' = trim(raw)
    /\ course' = AddPrerequisites(course, trim(raw))
    /\ applied' = applied + 1
    /\ UNCHANGED mainVars
    /\ UNCHANGED tokVars

RowNext == \E raw \in RawFields : ApplyRow(raw)

RowSpec == Init /\ [][RowNext]_vars

-----------------------------------------------------------------------------
(* The tokenizer on its own: split and splitByWord applied to every string *)
(* of at most MaxLen characters.                                           *)

TokAlphabet == {"A", " ", ",", "\t", "O", "R"}
TokStrings == StringsUpTo(TokAlphabet, MaxLen)
Delimiters == {",", "\t"}

CallSplit(str, delim) ==
    /\ op = "none"
    /\ op' = "split"
    /\ text' = str
    /\ delimiter' = delim
    /\ tokens' = split(str, delim)
    /\ UNCHANGED mainVars
    /\ UNCHANGED rowVars

CallSplitByWord(str) ==
    /\ op = "none"
    /\ op' = "splitByWord"
    /\ text' = str
    /\ tokens' = splitByWord(str, OR)
    /\ UNCHANGED delimiter
    /\ UNCHANGED mainVars
    /\ UNCHANGED rowVars

TokNext ==
    \/ \E str \in TokStrings, delim \in Delimiters : CallSplit(str, delim)
    \/ \E str \in TokStrings : CallSplitByWord(str)

TokSpec == Init /\ [][TokNext]_vars

-----------------------------------------------------------------------------
(* Notions the properties below are stated with.                           *)

\* The alternatives of a group joined by a single space.
RECURSIVE JoinSpace(_)
JoinSpace(group) ==
    IF group = <<>> THEN EmptyStr
    ELSE IF Len(group) = 1 THEN Head(group)
    ELSE Head(group) \o <<" ">> \o JoinSpace(Tail(group))

IsPrefix(s, t) == Len(s) <= Len(t) /\ SubSeq(t, 1, Len(s)) = s

\* The number of positions of str that hold the character c.
Occurrences(str, c) == Cardinality({i \in 1..Len(str) : str[i] = c})

\* A step that reads one row of the prerequisites file.
RowStep == pc = "rows" /\ nrows' = nrows + 1

-----------------------------------------------------------------------------
(* Tokenizer.                                                              *)

\* C7: split(text, delimiter) returns exactly N+1 tokens, N being the number
\* of occurrences of the delimiter in text (so the empty text yields one
\* empty token, and a text ending in the delimiter a final empty token).
C7_SplitTokenCount ==
    op = "split" => Len(tokens) = Occurrences(text, delimiter) + 1

\* Where the trailing remainder of splitByWord starts: the position after
\* the last occurrence of word that the scan from start finds.
RECURSIVE RemainderStart(_, _, _)
RemainderStart(str, word, start) ==
    LET end == Find(str, word, start)
    IN IF end # npos THEN RemainderStart(str, word, end + Len(word)) ELSE start

\* C8: splitByWord treats a trailing remainder that is empty after trimming
\* the same way in all cases: a text whose remainder is whitespace only
\* yields as many tokens as the same text with the remainder cut off, whose
\* remainder is the empty string.
C8_TrailingRemainderConsistent ==
    op = "splitByWord" =>
        LET r == RemainderStart(text, OR, 1)
        IN trim(Substr(text, r)) = EmptyStr
              => Len(tokens) = Len(splitByWord(SubSeq(text, 1, r - 1), OR))

-----------------------------------------------------------------------------
(* Invariants of the index.                                                *)

Prerequisites(id) == courseMap[id].prerequisites

\* C1: for every course of the index, no two groups of its prerequisites
\* have the same canonical key (the alternatives joined by a single space),
\* whatever rows were processed, rows with the same CourseId included.
C1_NoDuplicateGroupKeys ==
    \A id \in DOMAIN courseMap :
        \A i, j \in 1..Len(Prerequisites(id)) :
            i # j => JoinSpace(Prerequisites(id)[i]) # JoinSpace(Prerequisites(id)[j])

\* C2: for every course of the index, no alternative appears in more than
\* one group of its prerequisites, and none appears twice inside one group.
C2_AlternativesGloballyUnique ==
    \A id \in DOMAIN courseMap :
        LET p == Prerequisites(id)
        IN /\ \A i, j \in 1..Len(p) :
                 i # j => \A a \in 1..Len(p[i]), b \in 1..Len(p[j]) : p[i][a] # p[j][b]
           /\ \A i \in 1..Len(p) :
                 \A a, b \in 1..Len(p[i]) : a # b => p[i][a] # p[i][b]

\* C10: every group stored in any course's prerequisites has at least two
\* alternatives: no empty and no one-member group is ever appended.
C10_GroupsHaveTwoAlternatives ==
    \A id \in DOMAIN courseMap :
        \A i \in 1..Len(Prerequisites(id)) : Len(Prerequisites(id)[i]) >= 2

\* Rows were read and groups were stored for some course.
C10_Witness ==
    /\ pc = "rows"
    /\ nrows = MaxRows
    /\ \E id \in DOMAIN courseMap : Len(Prerequisites(id)) >= 2

-----------------------------------------------------------------------------
(* Steps of the prerequisite pass.                                         *)

\* C4: a row whose trimmed CourseId is not a key of the index leaves the
\* index exactly as it was.
C4_UnknownReferenceSkip ==
    [][(RowStep /\ classNumber' \notin DOMAIN courseMap) => courseMap' = courseMap]_vars

\* A row naming an unknown course was read while the index held a course
\* with prerequisites.
C4_Witness ==
    /\ pc = "rows"
    /\ nrows = 2
    /\ classNumber \notin DOMAIN courseMap
    /\ \E id \in DOMAIN courseMap : Prerequisites(id) # <<>>

\* What a step of parsePrerequisites may change in the index.
PassFrame ==
    /\ DOMAIN courseMap' = DOMAIN courseMap
    /\ \A id \in DOMAIN courseMap :
          /\ courseMap'[id].classNumber = courseMap[id].classNumber
          /\ courseMap'[id].className = courseMap[id].className
          /\ IsPrefix(courseMap[id].prerequisites, courseMap'[id].prerequisites)
          /\ (~RowStep \/ id # classNumber')
                => courseMap'[id].prerequisites = courseMap[id].prerequisites

\* C9: every step of parsePrerequisites leaves the key set, every id and
\* every name unchanged, leaves the prerequisites of every course other than
\* the row's course unchanged, and only appends to the row's course.
C9_PrerequisitePassFrame ==
    [][(pc \in {"catalog", "rows"}) => PassFrame]_vars

\* Two rows were read, the last one appended to a course that had
\* prerequisites already, and another course has prerequisites too.
C9_Witness ==
    /\ pc = "rows"
    /\ nrows = 2
    /\ classNumber \in DOMAIN courseMap
    /\ \E id \in DOMAIN courseMap :
          id # classNumber /\ Prerequisites(id) # <<>>
    /\ Prerequisites(classNumber) # <<>>

-----------------------------------------------------------------------------
(* What one row appends.                                                   *)

\* The groups the last row appended to the course.
Appended ==
    SubSeq(course.prerequisites, Len(previous.prerequisites) + 1,
           Len(course.prerequisites))

\* The top-level groups of a raw field and the alternatives of the g-th.
TopGroups(raw) == split(raw, ",")
Alternatives(raw, g) == splitByWord(trim(TopGroups(raw)[g]), OR)

\* The retention rule with two sets, one of alternatives and one of group
\* keys: the alternatives of a group that were not seen before are kept, and
\* the group is retained when any are left and its key is a new one.
RECURSIVE UnseenAlternatives(_, _)
UnseenAlternatives(options, seen) ==
    IF options = <<>> THEN <<>>
    ELSE IF Head(options) \in seen THEN UnseenAlternatives(Tail(options), seen)
    ELSE <<Head(options)>>
             \o UnseenAlternatives(Tail(options), seen \cup {Head(options)})

RECURSIVE RetainedByRule(_, _, _, _)
RetainedByRule(raw, g, seenAlternatives, seenKeys) ==
    IF g > Len(TopGroups(raw)) THEN <<>>
    ELSE LET unique == UnseenAlternatives(Alternatives(raw, g), seenAlternatives)
             seen == seenAlternatives \cup {unique[k] : k \in 1..Len(unique)}
             key == JoinSpace(unique)
         IN IF unique # <<>> /\ key \notin seenKeys
            THEN <<unique>> \o RetainedByRule(raw, g + 1, seen, seenKeys \cup {key})
            ELSE RetainedByRule(raw, g + 1, seen, seenKeys)

\* C3: a row for a course of the index appends every top-level group that
\* has an alternative left after the alternative-level dedup and whose key
\* differs from the key of every group retained before it; a group that
\* reduces to one alternative not seen yet is appended as a one-member group.
C3_GroupRetentionRule ==
    applied >= 1 => Appended = RetainedByRule(prereqString, 1, {}, {})

\* The last row was the example, applied to a course without prerequisites.
ExampleApplied ==
    /\ applied >= 1
    /\ prereqString = Example
    /\ previous.prerequisites = <<>>

\* C5 as stated: the row "MATH 100 OR MATH 101, MATH 101" leaves the
\* course's prerequisites equal to the single group [MATH 100].
C5_ExampleLeavesMath100 ==
    ExampleApplied => course.prerequisites = <<<<Math100>>>>

\* C5 as amended: the row "MATH 100 OR MATH 101, MATH 101" leaves the
\* course's prerequisites equal to the single group [MATH 100, MATH 101].
C5_ExampleLeavesBothAlternatives ==
    ExampleApplied => course.prerequisites = <<<<Math100, Math101>>>>

\* The example row was applied to a course without prerequisites.
C5_Witness == ExampleApplied

\* Positions <<g, k>> of the alternatives of a raw field, in reading order.
Before(p, q) == p[1] < q[1] \/ (p[1] = q[1] /\ p[2] < q[2])

\* alts[g] being the alternatives of the g-th top-level group: the
\* positions where alt occurs, and the first of them.
PositionsOf(alts, alt) ==
    UNION {{<<g, k>> : k \in {i \in 1..Len(alts[g]) : alts[g][i] = alt}} :
              g \in 1..Len(alts)}

FirstPosition(alts, alt) ==
    CHOOSE p \in PositionsOf(alts, alt) :
        \A q \in PositionsOf(alts, alt) : p = q \/ Before(p, q)

\* app keeps the order of raw: every alternative of app occurs in raw; the
\* alternatives of one group first occur in one top-level group of raw, in
\* the order they have in the group; and later groups come from later
\* top-level groups.
KeepsOrder(raw, app) ==
    LET alts == [g \in 1..Len(TopGroups(raw)) |-> Alternatives(raw, g)]
        first == [j \in 1..Len(app) |->
                     [a \in 1..Len(app[j]) |-> FirstPosition(alts, app[j][a])]]
    IN /\ \A j \in 1..Len(app) : \A a \in 1..Len(app[j]) :
             PositionsOf(alts, app[j][a]) # {}
       /\ \A j \in 1..Len(app) : \A a, b \in 1..Len(app[j]) :
             /\ first[j][a][1] = first[j][b][1]
             /\ a < b => Before(first[j][a], first[j][b])
       /\ \A j, k \in 1..Len(app) :
             (j < k /\ app[j] # <<>> /\ app[k] # <<>>)
                 => first[j][1][1] < first[k][1][1]

\* C6: the groups a row appends appear in the order of the top-level groups
\* of the raw field they were retained from, the alternatives of a retained
\* group in the order of their first occurrence in the raw field, and the
\* groups of an earlier row before the groups of a later row.
C6_OrderPreservation ==
    applied >= 1 =>
        /\ IsPrefix(previous.prerequisites, course.prerequisites)
        /\ KeepsOrder(prereqString, Appended)

\* The last row appended two groups to a course that had prerequisites from
\* an earlier row.
C6_Witness ==
    /\ applied = 2
    /\ previous.prerequisites # <<>>
    /\ Len(Appended) >= 2

====
